---- MODULE Spec2Model ----
(***************************************************************************)
(* Model of the Mergington High School activities API (src/src/app.py).    *)
(*                                                                         *)
(* The program state is the module-level dictionary `activities`.  Three   *)
(* request handlers read or mutate it: get_activities, signup_for_activity *)
(* and unregister_from_activity.  Spec models requests handled one after   *)
(* another; SpecConc models two or more requests handled by worker threads *)
(* whose bytecode steps interleave (the handlers are plain `def` functions,*)
(* which FastAPI runs in a thread pool, and the code takes no lock).       *)
(***************************************************************************)
EXTENDS Integers, Sequences, FiniteSets, TLC

VARIABLES
    activities,   \* the in-memory activity database: name -> activity record
    last,         \* the most recent completed call (request, response, roster before it)
    workflow,     \* progress of a signup-then-unregister round trip
    pc,           \* per worker thread: position inside its handler
    req,          \* per worker thread: the request it is handling
    resp          \* per worker thread: the response it produced

vars == <<activities, last, workflow, pc, req, resp>>

----------------------------------------------------------------------------
(* Bounds of the model *)

NumEmails == 3
NumThreads == 2

(* Student e-mail addresses used as request inputs *)
Student(i) == "test" \o ToString(i) \o "@mergington.edu"
Emails == { Student(i) : i \in 1..NumEmails }

(* Names that are keys of the roster, and one that is not *)
TestActivity == "Test Activity"
EmptyActivity == "Empty Activity"
NonexistentActivity == "Nonexistent Activity"
RequestNames == {TestActivity, EmptyActivity, NonexistentActivity}

Threads == 1..NumThreads

----------------------------------------------------------------------------
(* The roster the service starts from: the two-activity roster that the     *)
(* test fixture installs in `activities`, of the same shape as the seed in *)
(* app.py (every list duplicate-free and within max_participants).         *)

sample_activities ==
    (TestActivity :> [description |-> "A test activity",
                      schedule |-> "Test schedule",
                      max_participants |-> 2,
                      participants |-> <<Student(1)>>])
    @@
    (EmptyActivity :> [description |-> "An empty test activity",
                       schedule |-> "Test schedule",
                       max_participants |-> 1,
                       participants |-> << >>])

----------------------------------------------------------------------------
(* Python list primitives used by the handlers *)

\* a membership test that looks at the last element only
ListContainsLast(lst, x) == Len(lst) > 0 /\ lst[Len(lst)] = x

\* `x in lst`
ListContains(lst, x) == \E i \in 1..Len(lst) : lst[i] = x

\* lst.insert(0, x) in place of append
ListPrepend(lst, x) == <<x>> \o lst

\* lst.append(x)
ListAppend(lst, x) == lst \o <<x>>

\* an index that ignores x
ListIndexHead(lst, x) == 1

\* index of the first occurrence of x (defined when x occurs)
ListIndex(lst, x) == CHOOSE i \in 1..Len(lst) :
                        /\ lst[i] = x
                        /\ \A j \in 1..(i-1) : lst[j] # x

\* lst.pop() in place of remove
ListPop(lst, x) == SubSeq(lst, 1, Len(lst) - 1)

\* lst.remove(x), for x in lst: deletes the first occurrence only
ListRemove(lst, x) ==
    LET i == ListIndex(lst, x)
    IN  SubSeq(lst, 1, i-1) \o SubSeq(lst, i+1, Len(lst))

----------------------------------------------------------------------------
(* Responses *)

HTTPException(status, detail) ==
    [status_code |-> status, body |-> [detail |-> detail]]

Ok(message) ==
    [status_code |-> 200, body |-> [message |-> message]]

InternalServerError ==
    [status_code |-> 500, body |-> [detail |-> "Internal Server Error"]]

\* `activity_name not in activities`
ActivityMissing(acts, activity_name) == activity_name \notin DOMAIN acts

\* an update that writes through a participant list shared by all activities
WithParticipantsShared(acts, activity_name, lst) ==
    [n \in DOMAIN acts |-> [acts[n] EXCEPT !.participants = lst]]

WithParticipants(acts, activity_name, lst) ==
    [acts EXCEPT ![activity_name].participants = lst]

----------------------------------------------------------------------------
(* The handlers, as functions from (roster, inputs) to (roster, response) *)

get_activities(acts) ==
    [roster |-> acts, response |-> [status_code |-> 200, body |-> acts]]

\* signup with the already-signed-up validation left out
signup_without_validation(acts, activity_name, email) ==
    IF ActivityMissing(acts, activity_name)
    THEN [roster |-> acts,
          response |-> HTTPException(404, "Activity not found")]
    ELSE [roster |-> WithParticipants(acts, activity_name,
                        ListAppend(acts[activity_name].participants, email)),
          response |-> Ok("Signed up " \o email \o " for " \o activity_name)]

\* signup that creates an unknown activity (dict.setdefault) instead of raising 404
signup_autocreate(acts, activity_name, email) ==
    LET known == IF ActivityMissing(acts, activity_name)
                 THEN acts @@ (activity_name :> [description |-> "",
                                                 schedule |-> "",
                                                 max_participants |-> 0,
                                                 participants |-> << >>])
                 ELSE acts
    IN  IF ListContains(known[activity_name].participants, email)
        THEN [roster |-> known,
              response |-> HTTPException(400, "Student is already signed up")]
        ELSE [roster |-> WithParticipants(known, activity_name,
                            ListAppend(known[activity_name].participants, email)),
              response |-> Ok("Signed up " \o email \o " for " \o activity_name)]

signup_for_activity(acts, activity_name, email) ==
    IF ActivityMissing(acts, activity_name)
    THEN [roster |-> acts,
          response |-> HTTPException(404, "Activity not found")]
    ELSE IF ListContains(acts[activity_name].participants, email)
    THEN [roster |-> acts,
          response |-> HTTPException(400, "Student is already signed up")]
    ELSE [roster |-> WithParticipants(acts, activity_name,
                        ListAppend(acts[activity_name].participants, email)),
          response |-> Ok("Signed up " \o email \o " for " \o activity_name)]

\* unregister that answers 200 when the student is not signed up
unregister_silent(acts, activity_name, email) ==
    IF ActivityMissing(acts, activity_name)
    THEN [roster |-> acts,
          response |-> HTTPException(404, "Activity not found")]
    ELSE IF ~ListContains(acts[activity_name].participants, email)
    THEN [roster |-> acts,
          response |-> Ok("Unregistered " \o email \o " from " \o activity_name)]
    ELSE [roster |-> WithParticipants(acts, activity_name,
                        ListRemove(acts[activity_name].participants, email)),
          response |-> Ok("Unregistered " \o email \o " from " \o activity_name)]

unregister_from_activity(acts, activity_name, email) ==
    IF ActivityMissing(acts, activity_name)
    THEN [roster |-> acts,
          response |-> HTTPException(404, "Activity not found")]
    ELSE IF ~ListContains(acts[activity_name].participants, email)
    THEN [roster |-> acts,
          response |-> HTTPException(400, "Student is not signed up for this activity")]
    ELSE [roster |-> WithParticipants(acts, activity_name,
                        ListRemove(acts[activity_name].participants, email)),
          response |-> Ok("Unregistered " \o email \o " from " \o activity_name)]

----------------------------------------------------------------------------
(* Requests handled one at a time *)

Call(op, activity_name, email, before, response) ==
    [op |-> op, activity_name |-> activity_name, email |-> email,
     before |-> before, response |-> response]

NoRequest == [op |-> "none", activity_name |-> "", email |-> ""]
NoResponse == [status_code |-> 0, body |-> ""]
NoCall == Call("none", "", "", sample_activities, NoResponse)

(* The client script of the signup-then-unregister workflow: a successful  *)
(* signup of an absent email starts it, the very next call completes it if *)
(* it is the unregister of the same email from the same activity, and any  *)
(* other call abandons it.                                                 *)
NoWorkflow ==
    [stage |-> "none", activity_name |-> "", email |-> "",
     before |-> << >>, signup_status |-> 0]

WorkflowStep(op, activity_name, email, r) ==
    IF /\ op = "signup"
       /\ activity_name \in DOMAIN activities
       /\ \A i \in 1..Len(activities[activity_name].participants) :
             activities[activity_name].participants[i] # email
    THEN [stage |-> "signed_up", activity_name |-> activity_name, email |-> email,
          before |-> activities[activity_name].participants,
          signup_status |-> r.response.status_code]
    ELSE IF /\ op = "unregister"
            /\ workflow.stage = "signed_up"
            /\ workflow.activity_name = activity_name
            /\ workflow.email = email
    THEN [workflow EXCEPT !.stage = "unregistered"]
    ELSE NoWorkflow

Handle(op, activity_name, email, r) ==
    /\ activities' = r.roster
    /\ last' = Call(op, activity_name, email, activities, r.response)
    /\ workflow' = WorkflowStep(op, activity_name, email, r)
    /\ UNCHANGED <<pc, req, resp>>

GetActivities ==
    Handle("list", "", "", get_activities(activities))

Signup ==
    \E activity_name \in RequestNames, email \in Emails :
        Handle("signup", activity_name, email,
               signup_for_activity(activities, activity_name, email))

Unregister ==
    \E activity_name \in RequestNames, email \in Emails :
        Handle("unregister", activity_name, email,
               unregister_from_activity(activities, activity_name, email))

Init ==
    /\ activities = sample_activities
    /\ last = NoCall
    /\ workflow = NoWorkflow
    /\ pc = [t \in Threads |-> "idle"]
    /\ req = [t \in Threads |-> NoRequest]
    /\ resp = [t \in Threads |-> NoResponse]

Next == GetActivities \/ Signup \/ Unregister

Spec == Init /\ [][Next]_vars

----------------------------------------------------------------------------
(* Requests handled concurrently.  Each worker thread runs one handler; the *)
(* interpreter may switch threads between the handler's statements, so the  *)
(* activity lookup, the membership validation and the list mutation are     *)
(* separate steps.  Each list operation is itself atomic.                   *)

\* a request arrives and is dispatched to an idle worker thread
Receive(t) ==
    /\ pc[t] = "idle"
    /\ \E op \in {"signup", "unregister"}, activity_name \in RequestNames, email \in Emails :
          req' = [req EXCEPT ![t] = [op |-> op, activity_name |-> activity_name,
                                     email |-> email]]
    /\ pc' = [pc EXCEPT ![t] = "validate_activity"]
    /\ UNCHANGED <<activities, last, workflow, resp>>

\* `if activity_name not in activities: raise HTTPException(404, ...)`
ValidateActivity(t) ==
    /\ pc[t] = "validate_activity"
    /\ IF ActivityMissing(activities, req[t].activity_name)
       THEN /\ resp' = [resp EXCEPT ![t] = HTTPException(404, "Activity not found")]
            /\ pc' = [pc EXCEPT ![t] = "done"]
       ELSE /\ pc' = [pc EXCEPT ![t] = "validate_student"]
            /\ UNCHANGED resp
    /\ UNCHANGED <<activities, last, workflow, req>>

\* `if email in activity["participants"]` / `if email not in activity["participants"]`
ValidateStudent(t) ==
    /\ pc[t] = "validate_student"
    /\ LET present == ListContains(activities[req[t].activity_name].participants,
                                   req[t].email)
       IN  IF req[t].op = "signup" /\ present
           THEN /\ resp' = [resp EXCEPT ![t] =
                              HTTPException(400, "Student is already signed up")]
                /\ pc' = [pc EXCEPT ![t] = "done"]
           ELSE IF req[t].op = "unregister" /\ ~present
           THEN /\ resp' = [resp EXCEPT ![t] =
                              HTTPException(400, "Student is not signed up for this activity")]
                /\ pc' = [pc EXCEPT ![t] = "done"]
           ELSE /\ pc' = [pc EXCEPT ![t] = "mutate"]
                /\ UNCHANGED resp
    /\ UNCHANGED <<activities, last, workflow, req>>

\* `activity["participants"].append(email)` and the return of the message
AddStudent(t) ==
    /\ pc[t] = "mutate"
    /\ req[t].op = "signup"
    /\ activities' = WithParticipants(activities, req[t].activity_name,
                        ListAppend(activities[req[t].activity_name].participants,
                                   req[t].email))
    /\ resp' = [resp EXCEPT ![t] =
                  Ok("Signed up " \o req[t].email \o " for " \o req[t].activity_name)]
    /\ pc' = [pc EXCEPT ![t] = "done"]
    /\ UNCHANGED <<last, workflow, req>>

\* `activity["participants"].remove(email)` and the return of the message;
\* list.remove raises ValueError when the email is gone, which the server
\* answers with 500
RemoveStudent(t) ==
    /\ pc[t] = "mutate"
    /\ req[t].op = "unregister"
    /\ IF ListContains(activities[req[t].activity_name].participants, req[t].email)
       THEN /\ activities' = WithParticipants(activities, req[t].activity_name,
                                ListRemove(activities[req[t].activity_name].participants,
                                           req[t].email))
            /\ resp' = [resp EXCEPT ![t] =
                          Ok("Unregistered " \o req[t].email \o " from "
                             \o req[t].activity_name)]
       ELSE /\ resp' = [resp EXCEPT ![t] = InternalServerError]
            /\ UNCHANGED activities
    /\ pc' = [pc EXCEPT ![t] = "done"]
    /\ UNCHANGED <<last, workflow, req>>

NextConc ==
    \E t \in Threads :
        \/ Receive(t)
        \/ ValidateActivity(t)
        \/ ValidateStudent(t)
        \/ AddStudent(t)
        \/ RemoveStudent(t)

SpecConc == Init /\ [][NextConc]_vars

----------------------------------------------------------------------------
(* Vocabulary of the properties *)

Elements(lst) == { lst[i] : i \in 1..Len(lst) }

Occurrences(lst, x) == Cardinality({ i \in 1..Len(lst) : lst[i] = x })

Without(lst, x) == SelectSeq(lst, LAMBDA y : y # x)

LastIsCall(op) == last.op = op /\ last.activity_name \in DOMAIN last.before

ParticipantsBefore == last.before[last.activity_name].participants
ParticipantsAfter == activities[last.activity_name].participants

----------------------------------------------------------------------------
(* Properties of requests handled one at a time *)

\* C1: after any sequence of signup and unregister calls from a duplicate-free
\* roster, every activity's participant list holds each email at most once.
NoDuplicateParticipants ==
    \A n \in DOMAIN activities :
        \A e \in Elements(activities[n].participants) :
            Occurrences(activities[n].participants, e) = 1

\* C1 witness: a signup of an email already on a list of two or more was attempted.
DuplicateSignupAttempted ==
    /\ LastIsCall("signup")
    /\ last.email \in Elements(ParticipantsBefore)
    /\ Len(ParticipantsAfter) >= 2

\* C2: no activity ever holds more participants than its max_participants.
CapacityRespected ==
    \A n \in DOMAIN activities :
        Len(activities[n].participants) <= activities[n].max_participants

DuplicateSignupRejected ==
    (LastIsCall("signup") /\ last.email \in Elements(ParticipantsBefore))
    => /\ last.response.status_code = 400
       /\ last.response.body = [detail |-> "Student is already signed up"]
       /\ activities = last.before

\* C4 witness: the email signed up again was on the list, and not as its last element.
DuplicateSignupOfEarlierDone ==
    /\ LastIsCall("signup")
    /\ Len(ParticipantsBefore) >= 2
    /\ ParticipantsBefore[1] = last.email

\* C5: unregister of an email in the list answers 200 and the list afterwards is
\* the previous list without that email, the others in their previous order.
UnregisterRemoves ==
    (LastIsCall("unregister") /\ last.email \in Elements(ParticipantsBefore))
    => /\ last.response.status_code = 200
       /\ last.email \notin Elements(ParticipantsAfter)
       /\ ParticipantsAfter = Without(ParticipantsBefore, last.email)
       /\ Len(ParticipantsAfter) = Len(ParticipantsBefore) - 1

\* C5 witness: the middle one of three participants was unregistered.
UnregisterOfMiddleDone ==
    /\ LastIsCall("unregister")
    /\ Len(ParticipantsBefore) = 3
    /\ ParticipantsBefore[2] = last.email

\* C6: unregister of an email that is not in the list (the list may be empty)
\* answers 400 "Student is not signed up for this activity" and leaves the
\* roster unchanged.
UnregisterAbsentRejected ==
    (LastIsCall("unregister") /\ last.email \notin Elements(ParticipantsBefore))
    => /\ last.response.status_code = 400
       /\ last.response.body = [detail |-> "Student is not signed up for this activity"]
       /\ activities = last.before

\* C6 witness: an unregister from an activity with an empty list was handled.
UnregisterFromEmptyDone ==
    /\ LastIsCall("unregister")
    /\ ParticipantsBefore = << >>

\* C7: signup and unregister for a name that is no key of the roster answer 404
\* "Activity not found", whatever the email, and leave the roster, its keys
\* included, unchanged.
UnknownActivityNotFound ==
    (last.op \in {"signup", "unregister"} /\ last.activity_name \notin DOMAIN last.before)
    => /\ last.response.status_code = 404
       /\ last.response.body = [detail |-> "Activity not found"]
       /\ DOMAIN activities = DOMAIN last.before
       /\ activities = last.before

\* C7 witness: a signup for an unknown name was handled, with an email that is
\* a participant of an existing activity.
SignupForUnknownDone ==
    /\ last.op = "signup"
    /\ last.activity_name \notin DOMAIN last.before
    /\ \E n \in DOMAIN last.before : last.email \in Elements(last.before[n].participants)

FrameUnchanged ==
    /\ DOMAIN activities = DOMAIN last.before
    /\ \A n \in DOMAIN activities \cap DOMAIN last.before :
          /\ activities[n].description = last.before[n].description
          /\ activities[n].schedule = last.before[n].schedule
          /\ activities[n].max_participants = last.before[n].max_participants
          /\ n # last.activity_name
                => activities[n].participants = last.before[n].participants
    /\ last.op = "list" => activities = last.before

\* C10 witness: a call changed one activity while another had participants.
MutationBesideOtherDone ==
    /\ LastIsCall("unregister")
    /\ ParticipantsAfter # ParticipantsBefore
    /\ \E n \in DOMAIN activities :
          n # last.activity_name /\ Len(activities[n].participants) >= 2

----------------------------------------------------------------------------
(* Properties of requests handled concurrently *)

\* the handler a request names, applied as one step
Serve(acts, r) ==
    IF r.op = "signup"
    THEN signup_for_activity(acts, r.activity_name, r.email)
    ELSE unregister_from_activity(acts, r.activity_name, r.email)

\* the roster and the responses of the threads' requests served one after
\* another in the given order, starting from the initial roster
RECURSIVE SerialRun(_)
SerialRun(order) ==
    IF order = << >>
    THEN [roster |-> sample_activities, responses |-> resp]
    ELSE LET sofar == SerialRun(SubSeq(order, 1, Len(order) - 1))
             t == order[Len(order)]
             r == Serve(sofar.roster, req[t])
         IN  [roster |-> r.roster,
              responses |-> [sofar.responses EXCEPT ![t] = r.response]]

SerialOrders ==
    { order \in [1..NumThreads -> Threads] :
        \A i, j \in 1..NumThreads : i # j => order[i] # order[j] }

AllDone == \A t \in Threads : pc[t] = "done"

\* C9: when concurrent signup/unregister requests have all been answered, the
\* responses and the final roster are those of some serial order of the same
\* requests; every response is 200, 400 or 404 and no email is on a list twice.
Serializable ==
    AllDone =>
        /\ \E order \in SerialOrders :
              /\ SerialRun(order).roster = activities
              /\ \A t \in Threads :
                    SerialRun(order).responses[t].status_code = resp[t].status_code
        /\ \A t \in Threads : resp[t].status_code \in {200, 400, 404}
        /\ \A n \in DOMAIN activities :
              \A e \in Elements(activities[n].participants) :
                  Occurrences(activities[n].participants, e) = 1

====
